---- MODULE Spec2Model ----
(***************************************************************************)
(* A model of the MachShip middleware (an Express server in front of the   *)
(* MachShip carrier API).  The repository holds three revisions of the     *)
(* server: src/server.js (one direct Bearer request per operation),        *)
(* src/unnamed/part_001 (a one-scheme callMachShip helper) and             *)
(* src/unnamed/part_000 (callMachShip with four auth strategies and a      *)
(* login session).  The variable rev says which revision is running.       *)
(*                                                                         *)
(* Node runs one callback at a time: every action below is one run of a    *)
(* handler from one await to the next.                                     *)
(*                                                                         *)
(* Strings the code inspects (bodies, cookies) are sequences of tokens;    *)
(* a token is a piece of text the code never looks inside.                 *)
(***************************************************************************)
EXTENDS Integers, Sequences, FiniteSets, TLC

VARIABLES
    rev,            \* the revision of the server that is running
    MACHSHIP_API_TOKEN, \* process.env.MACHSHIP_API_TOKEN, read at start
    now,            \* Date.now(), in ms since the process started
    sessionCookie,  \* part_000:31
    sessionExpiry,  \* part_000:32
    proc,           \* the inbound requests being handled, by request slot
    lastStore,      \* history: the last write of the session slot by a login
    lastLogin       \* history: the login whose response was processed last

vars == <<rev, MACHSHIP_API_TOKEN, now, sessionCookie, sessionExpiry, proc, lastStore,
          lastLogin>>

-----------------------------------------------------------------------------
(* JavaScript values: undefined, null, numbers, strings, booleans.         *)

JSUndefined == [t |-> "undefined", n |-> 0, s |-> <<>>]
JSNull      == [t |-> "null", n |-> 0, s |-> <<>>]
JSNum(k)    == [t |-> "number", n |-> k, s |-> <<>>]
JSStr(w)    == [t |-> "string", n |-> 0, s |-> w]
JSBool(b)   == [t |-> "boolean", n |-> IF b THEN 1 ELSE 0, s |-> <<>>]

\* ToBoolean: what `if (v)`, `!v`, `v && ...` and `v || ...` test.
Truthy(v) ==
    CASE v.t = "number"  -> v.n # 0
      [] v.t = "string"  -> v.s # <<>>
      [] v.t = "boolean" -> v.n = 1
      [] OTHER           -> FALSE

\* a || b
Or(a, b) == IF Truthy(a) THEN a ELSE b

\* String.prototype.includes on token sequences
Includes(s, sub) ==
    \E k \in 0..(Len(s) - Len(sub)) : SubSeq(s, k + 1, k + Len(sub)) = sub

-----------------------------------------------------------------------------
(* The carrier's answers.                                                  *)
(* response.data after axios has parsed it: a text (kind "text"; the empty *)
(* text is the empty body) or a JSON object (kind "object").  An object    *)
(* may have a routes array; `text` of an object is a message it carries    *)
(* in one of its fields.                                                   *)

TextData(w)       == [kind |-> "text", text |-> w, hasRoutes |-> FALSE, routes |-> <<>>]
ObjectData(w)     == [kind |-> "object", text |-> w, hasRoutes |-> FALSE, routes |-> <<>>]
RoutesData(rs)    == [kind |-> "object", text |-> <<>>, hasRoutes |-> TRUE, routes |-> rs]
NoData            == [kind |-> "none", text |-> <<>>, hasRoutes |-> FALSE, routes |-> <<>>]

\* `response.data` as a condition: an object is truthy, a text unless empty.
DataTruthy(d) == d.kind = "object" \/ (d.kind = "text" /\ d.text # <<>>)

\* String(response.data): the text itself; "[object Object]" for an object.
DataString(d) == IF d.kind = "object" THEN <<"[object Object]">> ELSE d.text

\* A transport-level failure (no response), or a response.
NetError == [net |-> TRUE, status |-> 0, data |-> NoData, setCookie |-> <<>>]
Response(st, d, ck) == [net |-> FALSE, status |-> st, data |-> d, setCookie |-> ck]

\* The literal the success check looks for (part_000:144).
SessionMarker == <<"Session", " ", "ID">>

-----------------------------------------------------------------------------
(* Errors a handler can catch.  error.response is set when axios rejected  *)
(* a response because of its status.                                       *)

NoError == [kind |-> "none", hasResponse |-> FALSE, status |-> 0, data |-> NoData]
AxiosError(out) ==
    IF out.net
    THEN [kind |-> "transport", hasResponse |-> FALSE, status |-> 0, data |-> NoData]
    ELSE [kind |-> "status", hasResponse |-> TRUE, status |-> out.status, data |-> out.data]
PlainError(k) == [kind |-> k, hasResponse |-> FALSE, status |-> 0, data |-> NoData]

-----------------------------------------------------------------------------
(* The gateway call.                                                       *)

\* part_000:97-130, in the order of the array.
AuthStrategies ==
    << [name |-> "Bearer Token",        header |-> "Authorization", scheme |-> "Bearer"],
       [name |-> "X-API-Key",           header |-> "X-API-Key",     scheme |-> ""],
       [name |-> "api-key",             header |-> "api-key",       scheme |-> ""],
       [name |-> "Authorization Token", header |-> "Authorization", scheme |-> "Token"] >>

\* server.js and part_001 send the one Bearer header.
BearerOnly ==
    << [name |-> "Bearer Token", header |-> "Authorization", scheme |-> "Bearer"] >>

Strategies(r) == IF r = "part_000" THEN AuthStrategies ELSE BearerOnly

\* A token is a sequence of words and runs of white space.
IsSpace(w) == w \in {" ", "  "}

\* The word in lower case, for the words the /i flag can tell apart here.
Lower(w) == IF w \in {"Bearer", "BEARER", "bearer"} THEN "bearer" ELSE w

\* String.prototype.trim
RECURSIVE TrimLeft(_)
TrimLeft(w) == IF w # <<>> /\ IsSpace(Head(w)) THEN TrimLeft(Tail(w)) ELSE w
RECURSIVE TrimRight(_)
TrimRight(w) ==
    IF w # <<>> /\ IsSpace(w[Len(w)]) THEN TrimRight(SubSeq(w, 1, Len(w) - 1)) ELSE w
Trim(w) == TrimRight(TrimLeft(w))

\* .replace(/^Bearer\s+/i, ''): one prefix, in any letter case, with the
\* white space that follows it.
StripBearerPrefix(w) ==
    IF Len(w) >= 2 /\ Lower(w[1]) = "bearer" /\ IsSpace(w[2])
    THEN TrimLeft(Tail(w))
    ELSE w

\* .replace('Bearer ', ''): the first occurrence of the literal, wherever
\* it is, in this letter case only.
ReplaceFirstBearer(w) ==
    LET at == {k \in 1..(Len(w) - 1) : w[k] = "Bearer" /\ w[k + 1] = " "}
    IN  IF at = {} THEN w
        ELSE LET k == CHOOSE j \in at : \A m \in at : j <= m
             IN  SubSeq(w, 1, k - 1) \o SubSeq(w, k + 2, Len(w))

\* cleanToken of callMachShip (part_000:92, part_001:36); server.js puts
\* MACHSHIP_API_TOKEN into the header as it is (server.js:125).
CleanToken(r, token) ==
    CASE r = "part_000" -> StripBearerPrefix(Trim(token))
      [] r = "part_001" -> ReplaceFirstBearer(token)
      [] OTHER          -> token

\* The value of the auth header of a strategy: `Bearer ${cleanToken}`,
\* `Token ${cleanToken}`, or cleanToken alone.
HeaderValue(r, strategy, token) ==
    IF strategy.scheme = "" THEN CleanToken(r, token)
    ELSE <<strategy.scheme, " ">> \o CleanToken(r, token)

\* validateStatus of the strategy loop: a status >= 500 makes axios throw.
ValidateStatusLoop(status) == status < 500

\* axios' default validateStatus, which server.js and part_001 leave alone.
ValidateStatusDefault(status) == status >= 200 /\ status < 300

\* validateStatus of the login request: every status is a response.
ValidateStatusLogin(status) == TRUE

\* The success check without its test of response.data.
IsSuccessAnyBody(out) ==
    /\ out.status = 200
    /\ ~Includes(DataString(out.data), SessionMarker)

\* "Check if successful" (part_000:144).
IsSuccess(out) ==
    /\ out.status = 200
    /\ DataTruthy(out.data)
    /\ ~Includes(DataString(out.data), SessionMarker)

\* The end of a loop body that sends the same strategy again after an
\* error.
NextStrategyResend(i, err) ==
    IF err # NoError
    THEN [kind |-> "next", i |-> i, lastError |-> err, value |-> NetError]
    ELSE IF i < Len(AuthStrategies)
    THEN [kind |-> "next", i |-> i + 1, lastError |-> err, value |-> NetError]
    ELSE [kind |-> "throw", i |-> i, lastError |-> PlainError("all_failed"),
          value |-> NetError]

\* The end of the loop body: the next strategy, or the throw after the loop.
NextStrategy(i, err) ==
    IF i < Len(AuthStrategies)
    THEN [kind |-> "next", i |-> i + 1, lastError |-> err, value |-> NetError]
    ELSE [kind |-> "throw", i |-> i,
          lastError |-> IF err # NoError THEN err ELSE PlainError("all_failed"),
          value |-> NetError]

\* The loop without the return in its body: a success is returned only
\* when it is the last strategy's.
LoopStepNoReturn(i, lastErr, out) ==
    IF out.net \/ ~ValidateStatusLoop(out.status)
    THEN NextStrategy(i, AxiosError(out))
    ELSE IF IsSuccess(out) /\ i = Len(AuthStrategies)
         THEN [kind |-> "return", i |-> i, lastError |-> lastErr, value |-> out]
         ELSE NextStrategy(i, lastErr)

\* One turn of the loop of callMachShip in part_000, resumed with the
\* outcome `out` of strategy i; lastErr is the loop's lastError.
LoopStep(i, lastErr, out) ==
    IF out.net \/ ~ValidateStatusLoop(out.status)
    THEN NextStrategy(i, AxiosError(out))
    ELSE IF IsSuccess(out)
         THEN [kind |-> "return", i |-> i, lastError |-> lastErr, value |-> out]
         ELSE NextStrategy(i, lastErr)

\* The single request of server.js and part_001: axios throws on a
\* transport failure and on every status outside 2xx.
SingleStep(i, lastErr, out) ==
    IF out.net \/ ~ValidateStatusDefault(out.status)
    THEN [kind |-> "throw", i |-> i, lastError |-> AxiosError(out), value |-> NetError]
    ELSE [kind |-> "return", i |-> i, lastError |-> lastErr, value |-> out]

\* A gateway call that sends the one Bearer request while a session is
\* stored, and walks the strategies otherwise.
CallStepBySession(r, i, lastErr, out) ==
    IF r = "part_000" /\ sessionCookie = JSNull
    THEN LoopStep(i, lastErr, out)
    ELSE SingleStep(i, lastErr, out)

CallStep(r, i, lastErr, out) ==
    IF r = "part_000" THEN LoopStep(i, lastErr, out) ELSE SingleStep(i, lastErr, out)

-----------------------------------------------------------------------------
(* The session (part_000 only).                                            *)

SessionTtl == 30 * 60 * 1000

\* cookie.split(';')[0]
SplitFirst(cookie) ==
    LET semis == {k \in 1..Len(cookie) : cookie[k] = ";"}
    IN  IF semis = {} THEN cookie
        ELSE SubSeq(cookie, 1, (CHOOSE k \in semis : \A j \in semis : k <= j) - 1)

\* parts.join('; ')
RECURSIVE Join(_)
Join(parts) ==
    IF Len(parts) = 0 THEN <<>>
    ELSE IF Len(parts) = 1 THEN parts[1]
    ELSE parts[1] \o <<";", " ">> \o Join(Tail(parts))

\* The cookie lines joined whole, attributes and all.
CookieToStoreWhole(cookies) == JSStr(Join(cookies))

\* An expiry that is set only while the slot has none.
ExpiryToStoreOnce(t) ==
    IF sessionExpiry # JSNull THEN sessionExpiry ELSE JSNum(t + SessionTtl)

\* The two assignments of loginToMachShip (part_000:62-63).
CookieToStore(cookies) == JSStr(Join([k \in 1..Len(cookies) |-> SplitFirst(cookies[k])]))
ExpiryToStore(t) == JSNum(t + SessionTtl)

\* A login that stores whatever a response carries, cookies or none.
LoginHasResponse(out) == ~out.net

\* Whether the login response carries cookies (part_000:60-61); a transport
\* failure lands in the catch block.
LoginHasCookies(out) == ~out.net /\ ValidateStatusLogin(out.status) /\ Len(out.setCookie) > 0

\* isSessionValid (part_000:81-87), as the truth value of what it returns.
IsSessionValid(cookie, expiry, t) ==
    Truthy(cookie) /\ Truthy(expiry) /\ t < expiry.n

-----------------------------------------------------------------------------
(* Request bodies and the requests built from them.                        *)

QuoteEndpoint   == "/routes/returnrouteswithcomplexitems"
ConsignEndpoint == "/consignments/createConsignmentwithComplexItems"

Text(w) == JSStr(<<w>>)

\* req.body.destination_address; present = FALSE is a body without it.
Address(nm, st, sub, sta, pc, co) ==
    [present |-> TRUE, name |-> nm, street |-> st, suburb |-> sub,
     state |-> sta, postcode |-> pc, country |-> co]
NoAddress ==
    [present |-> FALSE, name |-> JSUndefined, street |-> JSUndefined,
     suburb |-> JSUndefined, state |-> JSUndefined, postcode |-> JSUndefined,
     country |-> JSUndefined]

\* One element of req.body.items.
Item(q, l, w, h, wt, d, nm, sku) ==
    [quantity |-> q, length |-> l, width |-> w, height |-> h, weight |-> wt,
     description |-> d, name |-> nm, sku |-> sku]

Items(list) == [present |-> TRUE, list |-> list]
NoItems     == [present |-> FALSE, list |-> <<>>]

Body(dest, items, forklift, order) ==
    [destination_address |-> dest, items |-> items,
     forklift_available |-> forklift, order_number |-> order]
NoBody == Body(NoAddress, NoItems, JSUndefined, JSUndefined)

\* toLocation of the quote and consignment requests.
ToLocation(dest) ==
    [contactName |-> Or(dest.name, Text("Customer")),
     street      |-> dest.street,
     suburb      |-> dest.suburb,
     state       |-> dest.state,
     postcode    |-> dest.postcode,
     country     |-> Or(dest.country, Text("AU"))]

\* items.map(...) of the quote request.
QuoteItem(r, it) ==
    [quantity |-> Or(it.quantity, JSNum(1)),
     length   |-> Or(it.length, JSNum(100)),
     width    |-> Or(it.width, JSNum(50)),
     height   |-> Or(it.height, JSNum(30)),
     weight   |-> Or(it.weight, JSNum(25)),
     itemDescription |->
         IF r = "part_001" THEN Or(it.description, Text("Battery"))
         ELSE Or(it.description, Or(it.name, Text("Battery"))),
     itemReference |-> JSUndefined]

\* items.map(...) of the consignment request.
ConsignItem(it) ==
    [quantity |-> Or(it.quantity, JSNum(1)),
     length   |-> Or(it.length, JSNum(100)),
     width    |-> Or(it.width, JSNum(50)),
     height   |-> Or(it.height, JSNum(30)),
     weight   |-> Or(it.weight, JSNum(25)),
     itemDescription |-> Or(it.description, Or(it.name, Text("Battery"))),
     itemReference |-> Or(it.sku, JSStr(<<>>))]

\* forklift_available === false || forklift_available === 'no'
TailLift(forklift) == forklift = JSBool(FALSE) \/ forklift = Text("no")

NoRequest ==
    [endpoint |-> "none", toLocation |-> ToLocation(NoAddress), items |-> <<>>,
     dangerousGoods |-> FALSE, tailLiftRequired |-> FALSE, orderNumber |-> JSUndefined]

\* machshipRequest of POST /api/get-shipping-quote.
QuoteRequest(r, body) ==
    [endpoint |-> QuoteEndpoint,
     toLocation |-> ToLocation(body.destination_address),
     items |-> [k \in 1..Len(body.items.list) |-> QuoteItem(r, body.items.list[k])],
     dangerousGoods |-> TRUE,
     tailLiftRequired |-> TailLift(body.forklift_available),
     orderNumber |-> JSUndefined]

\* consignmentRequest of POST /api/create-consignment.
ConsignRequest(body) ==
    [endpoint |-> ConsignEndpoint,
     toLocation |-> ToLocation(body.destination_address),
     items |-> [k \in 1..Len(body.items.list) |-> ConsignItem(body.items.list[k])],
     dangerousGoods |-> TRUE,
     tailLiftRequired |-> TailLift(body.forklift_available),
     orderNumber |-> body.order_number]

\* testRequest of GET /api/test-machship-auth (part_000:209-230).
TestRequest ==
    [endpoint |-> QuoteEndpoint,
     toLocation |-> [contactName |-> Text("Test"), street |-> Text("123 Test St"),
                     suburb |-> Text("Melbourne"), state |-> Text("VIC"),
                     postcode |-> Text("3000"), country |-> Text("AU")],
     items |-> << [quantity |-> JSNum(1), length |-> JSNum(100), width |-> JSNum(50),
                   height |-> JSNum(30), weight |-> JSNum(25),
                   itemDescription |-> Text("Test Item"),
                   itemReference |-> JSUndefined] >>,
     dangerousGoods |-> FALSE,
     tailLiftRequired |-> FALSE,
     orderNumber |-> JSUndefined]

\* "Validate request" of the quote handler; part_001 does not test the length.
QuoteInvalid(r, body) ==
    \/ ~body.destination_address.present
    \/ ~body.items.present
    \/ (r # "part_001" /\ Len(body.items.list) = 0)

\* "Validate request" of the consignment handler.
ConsignInvalid(body) ==
    \/ ~Truthy(body.order_number)
    \/ ~body.destination_address.present
    \/ ~body.items.present

-----------------------------------------------------------------------------
(* The order event of POST /api/zoho-webhook and what is built from it.    *)

\* One element of orderData.custom_fields.
Field(id, v) == [customfield_id |-> id, value |-> v]
CustomFields(list) == [present |-> TRUE, list |-> list]
NoCustomFields     == [present |-> FALSE, list |-> <<>>]

\* req.body of the webhook.  A line item is an Item whose length, width,
\* height and weight are those of its package_details; shipping_address is
\* an Address whose name is its `attention`.
OrderEvent(custom, lines, so, addr, cust) ==
    [custom_fields |-> custom, line_items |-> lines, salesorder_number |-> so,
     shipping_address |-> addr, customer_name |-> cust]
NoEvent == OrderEvent(NoCustomFields, NoItems, JSUndefined, NoAddress, JSUndefined)

ForkliftFieldId == Text("171656000002394353")

\* The last field of the list with the identifier, not the first.
FindLastForkliftField(list) ==
    LET at == {k \in 1..Len(list) : list[k].customfield_id = ForkliftFieldId}
    IN  IF at = {} THEN 0 ELSE CHOOSE k \in at : \A j \in at : j <= k

\* custom_fields.find(field => field.customfield_id === '171656000002394353'):
\* the place of the first field with the identifier, 0 when find returns
\* undefined.
FindForkliftField(list) ==
    LET at == {k \in 1..Len(list) : list[k].customfield_id = ForkliftFieldId}
    IN  IF at = {} THEN 0 ELSE CHOOSE k \in at : \A j \in at : k <= j

\* "Extract forklift availability from custom fields" (server.js:330-338,
\* part_000:503-511, part_001:120-124).
ForkliftAvailable(r, ev) ==
    LET cf == ev.custom_fields
        k  == FindForkliftField(cf.list)
    IN  /\ cf.present
        /\ (r # "part_001" => Len(cf.list) > 0)
        /\ k # 0
        /\ cf.list[k].value = Text("yes")

\* `destination` of the webhook of server.js and part_000; the ?. reads of
\* an absent shipping_address give undefined.
WebhookDestination(ev) ==
    [present  |-> TRUE,
     name     |-> Or(ev.shipping_address.name, ev.customer_name),
     street   |-> ev.shipping_address.street,
     suburb   |-> ev.shipping_address.suburb,
     state    |-> ev.shipping_address.state,
     postcode |-> ev.shipping_address.postcode,
     country  |-> Or(ev.shipping_address.country, Text("AU"))]

\* line_items.map(...) of the webhook of server.js and part_000.
WebhookItem(li) ==
    Item(li.quantity, Or(li.length, JSNum(100)), Or(li.width, JSNum(50)),
         Or(li.height, JSNum(30)), Or(li.weight, JSNum(25)), li.name, JSUndefined, li.sku)

\* The body the webhook of server.js and part_000 posts to its own
\* /api/create-consignment.
WebhookBody(r, ev) ==
    Body(WebhookDestination(ev),
         Items([k \in 1..Len(ev.line_items.list) |-> WebhookItem(ev.line_items.list[k])]),
         JSBool(ForkliftAvailable(r, ev)),
         ev.salesorder_number)

\* line_items.map(...) of the webhook of part_001.
WebhookItem001(li) ==
    [quantity |-> li.quantity, length |-> JSNum(100), width |-> JSNum(50),
     height |-> JSNum(30), weight |-> JSNum(25),
     itemDescription |-> li.name, itemReference |-> JSUndefined]

\* consignmentRequest of the webhook of part_001, sent by callMachShip.
WebhookRequest001(ev) ==
    [endpoint |-> ConsignEndpoint,
     toLocation |-> [contactName |-> Or(ev.shipping_address.name, ev.customer_name),
                     street      |-> ev.shipping_address.street,
                     suburb      |-> ev.shipping_address.suburb,
                     state       |-> ev.shipping_address.state,
                     postcode    |-> ev.shipping_address.postcode,
                     country     |-> Or(ev.shipping_address.country, Text("AU"))],
     items |-> [k \in 1..Len(ev.line_items.list) |-> WebhookItem001(ev.line_items.list[k])],
     dangerousGoods |-> TRUE,
     tailLiftRequired |-> ~ForkliftAvailable("part_001", ev),
     orderNumber |-> ev.salesorder_number]

\* orderData.line_items.map(...) throws a TypeError when line_items is
\* undefined.
WebhookThrows(ev) == ~ev.line_items.present

-----------------------------------------------------------------------------
(* What the handlers answer.                                               *)

Result(st, ok, err, det, cost, rid) ==
    [status |-> st, success |-> ok, error |-> err, details |-> det,
     cost |-> cost, routeId |-> rid]
NoResult == Result(0, FALSE, "none", NoData, 0, 0)

\* The reduction with <= for <: the last of the cheapest routes.
RECURSIVE ReduceFromLast(_, _, _)
ReduceFromLast(routes, k, prev) ==
    IF k > Len(routes) THEN prev
    ELSE ReduceFromLast(routes, k + 1,
                        IF routes[k].totalCost <= prev.totalCost THEN routes[k] ELSE prev)

\* routes.reduce((prev, current) => (current.totalCost < prev.totalCost) ? current : prev)
RECURSIVE ReduceFrom(_, _, _)
ReduceFrom(routes, k, prev) ==
    IF k > Len(routes) THEN prev
    ELSE ReduceFrom(routes, k + 1,
                    IF routes[k].totalCost < prev.totalCost THEN routes[k] ELSE prev)

CheapestRoute(routes) == ReduceFrom(routes, 2, routes[1])

\* The quote handler after the carrier call has returned `out`
\* (server.js:131-178, part_000:323-370).
QuoteAnswer(out) ==
    IF ~DataTruthy(out.data) \/ ~out.data.hasRoutes
    THEN Result(500, FALSE, "No shipping routes available", out.data, 0, 0)
    ELSE IF Len(out.data.routes) = 0
    THEN Result(404, FALSE, "No shipping routes available for this destination", NoData, 0, 0)
    ELSE LET c == CheapestRoute(out.data.routes)
         IN  Result(200, TRUE, "", NoData, c.totalCost, c.routeId)

\* The catch block without its test of error.response: the status is read
\* from the error whatever it is.
CatchAnswerNoTest(err) ==
    Result(err.status, FALSE, "MachShip API error", err.data, 0, 0)

\* The catch block of the quote and consignment handlers
\* (server.js:180-197 and 298-315, part_000:372-389 and 473-490).
CatchAnswer(err) ==
    IF err.hasResponse
    THEN Result(err.status, FALSE, "MachShip API error", err.data, 0, 0)
    ELSE Result(500, FALSE, "Internal server error", NoData, 0, 0)

\* The catch block of the quote handler of part_001 (103-110).
CatchAnswer001(err) ==
    Result(IF err.hasResponse THEN err.status ELSE 500, FALSE, "MachShip API error",
           IF err.hasResponse /\ DataTruthy(err.data) THEN err.data ELSE NoData, 0, 0)

\* The quote handler of part_001 after callMachShip has returned (90-101):
\* an empty or missing routes array is thrown and caught by its own catch.
QuoteAnswer001(out) ==
    LET routes == IF out.data.hasRoutes THEN out.data.routes ELSE <<>>
    IN  IF Len(routes) = 0
        THEN CatchAnswer001(PlainError("No routes returned from MachShip"))
        ELSE Result(200, TRUE, "", NoData, CheapestRoute(routes).totalCost, 0)

\* The consignment handler after the carrier call has returned.
ConsignAnswer(out) == Result(200, TRUE, "Consignment created successfully", out.data, 0, 0)

\* GET /api/test-machship-auth answers with res.json (status 200) always.
AuthTestNoLogin == Result(200, FALSE, "Login attempt completed but no session cookie received", NoData, 0, 0)
AuthTestAnswer(out) == Result(200, TRUE, "MachShip authentication working!", NoData, 0, 0)
AuthTestCatch(err) == Result(200, FALSE, "auth test failed", err.data, 0, 0)

\* "Validate request" has failed (server.js:69-72 and 221-224).
MissingFields == Result(400, FALSE, "Missing required fields", NoData, 0, 0)

\* The catch block of the webhook (server.js:387-393, part_000:560-566,
\* part_001:157-160): status 500 with error.message, whatever was thrown.
WebhookCatch(err) == Result(500, FALSE, "error.message", NoData, 0, 0)

\* The webhook answering with success whatever its own endpoint answered.
WebhookAnswerAnyStatus(inner) ==
    Result(200, TRUE, "Order processed successfully", inner.details, 0, 0)

\* The webhook of server.js and part_000 resumed with the answer `inner` of
\* its own /api/create-consignment: axios rejects every status outside 2xx.
WebhookAnswer(inner) ==
    IF ValidateStatusDefault(inner.status)
    THEN Result(200, TRUE, "Order processed successfully", inner.details, 0, 0)
    ELSE WebhookCatch(PlainError("status"))

\* The webhook of part_001 after callMachShip has returned (151-155).
WebhookAnswer001(out) == Result(200, TRUE, "", out.data, 0, 0)

\* What the handler of operation op answers once the carrier call returned.
OnReturn(r, op, out) ==
    CASE op = "quote" /\ r = "part_001"   -> QuoteAnswer001(out)
      [] op = "quote"                     -> QuoteAnswer(out)
      [] op = "consignment"               -> ConsignAnswer(out)
      [] op = "webhook" /\ r = "part_001" -> WebhookAnswer001(out)
      [] op = "webhook"                   -> WebhookAnswer(ConsignAnswer(out))
      [] OTHER                            -> AuthTestAnswer(out)

\* What the handler of operation op answers once the carrier call threw.
OnThrow(r, op, err) ==
    CASE op = "quote" /\ r = "part_001"   -> CatchAnswer001(err)
      [] op = "authtest"                  -> AuthTestCatch(err)
      [] op = "webhook" /\ r = "part_001" -> WebhookCatch(err)
      [] op = "webhook"                   -> WebhookAnswer(CatchAnswer(err))
      [] OTHER                            -> CatchAnswer(err)

-----------------------------------------------------------------------------
(* The state machine.                                                      *)

\* One slot of proc: the handler's operation, where it waits, its request
\* body, the carrier request it built, the loop index and lastError of
\* callMachShip, and what it answered.  sent, answers, committed, returned
\* and thrown are history: the strategies sent to the carrier, the carrier's
\* outcomes in order, the consignments the carrier committed for this call,
\* and what callMachShip returned or threw; headers holds the value of the
\* auth header of each request sent.  event and forkliftAvailable are the
\* order event and the local variable of the webhook handler.
IdleProc ==
    [op |-> "none", pc |-> "idle", body |-> NoBody, request |-> NoRequest,
     i |-> 0, lastError |-> NoError, result |-> NoResult,
     sent |-> <<>>, answers |-> <<>>, committed |-> 0,
     returned |-> NetError, thrown |-> NoError, headers |-> <<>>,
     event |-> NoEvent, forkliftAvailable |-> FALSE]

\* lastStore: the slot of the login that wrote the session last, the
\* Set-Cookie lines it had received and the time it wrote at.
\* lastLogin: the slot of the login processed last, its outcome, and whether
\* it wrote the session.
NoStore == [by |-> 0, cookies |-> <<>>, at |-> 0]
NoLogin == [by |-> 0, wrote |-> FALSE, out |-> NetError]

\* Date.now() advances by TickMs at a time, up to MaxTicks times.
TickMs == 15 * 60 * 1000
MaxTicks == 3

InitWith(revs, slots, tokens) ==
    /\ rev \in revs
    /\ MACHSHIP_API_TOKEN \in tokens
    /\ now = 0
    /\ sessionCookie = JSNull
    /\ sessionExpiry = JSNull
    /\ proc = [p \in slots |-> IdleProc]
    /\ lastStore = NoStore
    /\ lastLogin = NoLogin

\* The carrier commits a consignment exactly when it answers a creation
\* request with a 2xx status and a consignment record.
CarrierCommits(request, out) ==
    /\ request.endpoint = ConsignEndpoint
    /\ ~out.net
    /\ out.status >= 200 /\ out.status < 300
    /\ out.data.kind = "object"

\* callMachShip(endpoint, data) up to its first await: the first strategy
\* is sent.
StartCall(st, request) ==
    [st EXCEPT !.pc = "await_call", !.request = request, !.i = 1,
               !.lastError = NoError, !.sent = <<Strategies(rev)[1]>>,
               !.headers = <<HeaderValue(rev, Strategies(rev)[1], MACHSHIP_API_TOKEN)>>]

Answered(st, res) == [st EXCEPT !.pc = "done", !.result = res]

\* A request arrives and its handler runs to its first await (or answers).
Receive(p, op, body) ==
    /\ proc[p].pc = "idle"
    /\ op = "consignment" => rev # "part_001"
    /\ op = "authtest" => rev = "part_000"
    /\ LET st == [proc[p] EXCEPT !.op = op, !.body = body]
       IN  proc' = [proc EXCEPT ![p] =
             CASE op = "quote" ->
                    IF QuoteInvalid(rev, body)
                    THEN Answered(st, Result(400, FALSE, "Missing required fields", NoData, 0, 0))
                    ELSE StartCall(st, QuoteRequest(rev, body))
               [] op = "consignment" ->
                    IF ConsignInvalid(body)
                    THEN Answered(st, Result(400, FALSE, "Missing required fields", NoData, 0, 0))
                    ELSE StartCall(st, ConsignRequest(body))
               [] OTHER -> [st EXCEPT !.pc = "await_login"]]
    /\ UNCHANGED <<rev, MACHSHIP_API_TOKEN, now, sessionCookie, sessionExpiry, lastStore, lastLogin>>

\* An order event arrives at the webhook, which runs to its first await.
\* In part_001 that is callMachShip.  In server.js and part_000 it is the
\* POST to the server's own /api/create-consignment: `reach` says whether
\* that request reaches the server, and the consignment handler then runs
\* in this slot to its own first await (nothing it reads can change in
\* between); its answer is what the webhook is resumed with.
ReceiveWebhook(p, ev, reach) ==
    /\ proc[p].pc = "idle"
    /\ LET st == [proc[p] EXCEPT !.op = "webhook", !.event = ev,
                                 !.forkliftAvailable = ForkliftAvailable(rev, ev)]
           body == WebhookBody(rev, ev)
           sb == [st EXCEPT !.body = body]
       IN  proc' = [proc EXCEPT ![p] =
             IF WebhookThrows(ev)
             THEN Answered(st, WebhookCatch(PlainError("TypeError")))
             ELSE IF rev = "part_001"
             THEN StartCall(st, WebhookRequest001(ev))
             ELSE IF ~reach
             THEN Answered(sb, WebhookCatch(PlainError("transport")))
             ELSE IF ConsignInvalid(body)
             THEN Answered(sb, WebhookAnswer(MissingFields))
             ELSE StartCall(sb, ConsignRequest(body))]
    /\ UNCHANGED <<rev, MACHSHIP_API_TOKEN, now, sessionCookie, sessionExpiry, lastStore, lastLogin>>

\* The carrier's outcome for the strategy in flight reaches callMachShip,
\* which runs on to its next await or to the handler's answer.
CarrierAnswer(p, out) ==
    /\ proc[p].pc = "await_call"
    /\ LET st   == proc[p]
           step == CallStep(rev, st.i, st.lastError, out)
           seen == [st EXCEPT !.answers = Append(@, out),
                              !.committed = IF CarrierCommits(st.request, out) THEN @ + 1 ELSE @]
       IN  proc' = [proc EXCEPT ![p] =
             CASE step.kind = "next" ->
                    [seen EXCEPT !.i = step.i, !.lastError = step.lastError,
                                 !.sent = Append(@, Strategies(rev)[step.i]),
                                 !.headers = Append(@, HeaderValue(rev, Strategies(rev)[step.i],
                                                                   MACHSHIP_API_TOKEN))]
               [] step.kind = "return" ->
                    [Answered(seen, OnReturn(rev, st.op, step.value))
                        EXCEPT !.returned = step.value]
               [] OTHER ->
                    [Answered(seen, OnThrow(rev, st.op, step.lastError))
                        EXCEPT !.lastError = step.lastError, !.thrown = step.lastError]]
    /\ UNCHANGED <<rev, MACHSHIP_API_TOKEN, now, sessionCookie, sessionExpiry, lastStore, lastLogin>>

\* The outcome of the login request reaches loginToMachShip; the auth-test
\* handler then answers or goes on to callMachShip (part_000:196-232).
LoginAnswer(p, out) ==
    /\ proc[p].pc = "await_login"
    /\ IF LoginHasCookies(out)
       THEN /\ sessionCookie' = CookieToStore(out.setCookie)
            /\ sessionExpiry' = ExpiryToStore(now)
            /\ lastStore' = [by |-> p, cookies |-> out.setCookie, at |-> now]
            /\ lastLogin' = [by |-> p, wrote |-> TRUE, out |-> out]
            /\ proc' = [proc EXCEPT ![p] = StartCall(@, TestRequest)]
       ELSE /\ UNCHANGED <<sessionCookie, sessionExpiry, lastStore>>
            /\ lastLogin' = [by |-> p, wrote |-> FALSE, out |-> out]
            /\ proc' = [proc EXCEPT ![p] = Answered(@, AuthTestNoLogin)]
    /\ UNCHANGED <<rev, MACHSHIP_API_TOKEN, now>>

\* The answer has been delivered; the slot takes the next request.
Finish(p) ==
    /\ proc[p].pc = "done"
    /\ proc' = [proc EXCEPT ![p] = IdleProc]
    /\ UNCHANGED <<rev, MACHSHIP_API_TOKEN, now, sessionCookie, sessionExpiry, lastStore, lastLogin>>

Tick ==
    /\ now < MaxTicks * TickMs
    /\ now' = now + TickMs
    /\ UNCHANGED <<rev, MACHSHIP_API_TOKEN, sessionCookie, sessionExpiry, proc, lastStore,
                   lastLogin>>

-----------------------------------------------------------------------------
(* The inputs the specifications draw from.                                *)

Unauthorized  == TextData(<<"Unauthorized">>)
EmptyBody     == TextData(<<>>)
SessionPage   == TextData(<<"Invalid", " ", "Session", " ", "ID">>)
OkText        == TextData(<<"OK">>)
JsonObject    == ObjectData(<<>>)
JsonWithMarker == ObjectData(<<"Session", " ", "ID", " ", "expired">>)
ServerError   == TextData(<<"Internal", " ", "Server", " ", "Error">>)

Route(id, cost) == [routeId |-> id, totalCost |-> cost]
TwoRoutes == RoutesData(<<Route(1, 2), Route(2, 1)>>)

\* Set-Cookie header lines.
CookieA    == <<"sid=abc", ";", " ", "Path=/", ";", " ", "HttpOnly">>
CookieB    == <<"lb=1">>
CookieBare == <<";", " ", "Path=/">>

FullAddress ==
    Address(Text("John Doe"), Text("123 Test St"), Text("Sydney"), Text("NSW"),
            Text("2000"), JSUndefined)
Battery ==
    Item(JSNum(2), JSUndefined, JSUndefined, JSUndefined, JSUndefined,
         Text("Battery 12V"), JSUndefined, Text("SKU-1"))
SampleBody == Body(FullAddress, Items(<<Battery>>), JSBool(FALSE), Text("SO-00123"))

\* A token as MachShip issues it, without a prefix.
PlainToken == <<"abc123">>

\* What the carrier may answer one strategy of a gateway call with.
GatewayOutcomes ==
    {NetError}
    \cup {Response(200, d, <<>>) :
             d \in {EmptyBody, SessionPage, OkText, JsonObject, JsonWithMarker, TwoRoutes}}
    \cup {Response(201, d, <<>>) : d \in {EmptyBody, JsonObject}}
    \cup {Response(401, d, <<>>) : d \in {Unauthorized, JsonObject, SessionPage}}
    \cup {Response(st, ServerError, <<>>) : st \in {500, 503}}
    \cup {Response(401, Unauthorized, <<CookieA>>), Response(200, TwoRoutes, <<CookieA>>)}

-----------------------------------------------------------------------------
(* Spec: one quote or consignment request at a time through callMachShip   *)
(* of part_000, against every outcome of GatewayOutcomes.                  *)

Init == InitWith({"part_000"}, {1}, {PlainToken})

Next ==
    \/ \E op \in {"quote", "consignment"} : Receive(1, op, SampleBody)
    \/ \E out \in GatewayOutcomes : CarrierAnswer(1, out)
    \/ Finish(1)

Spec == Init /\ [][Next]_vars

-----------------------------------------------------------------------------
(* Properties of the gateway call (checked under Spec).                    *)

Slots == DOMAIN proc

\* callMachShip has returned a response / has thrown.
Returned(st) == st.pc = "done" /\ st.returned # NetError
Threw(st)    == st.pc = "done" /\ st.thrown # NoError

\* The code took answer k of the call: it is the last answer and the call
\* returned.  It passed over every earlier answer by sending the next scheme.
Took(st, k) == k = Len(st.answers) /\ Returned(st)

Is2xx(out) == ~out.net /\ out.status >= 200 /\ out.status < 300

\* The text of the body as the carrier sent it holds the marker.
BodyHoldsMarker(out) == Includes(out.data.text, SessionMarker)

\* An answer that the success check takes: status 200, a body that is not
\* empty, the marker not in the body's string conversion.
Acceptable(out) ==
    /\ ~out.net
    /\ out.status = 200
    /\ out.data # EmptyBody
    /\ (out.data.kind = "text" => ~BodyHoldsMarker(out))

\* The order the schemes are claimed to be tried in, as (header, scheme).
ClaimedOrder ==
    << <<"Authorization", "Bearer">>, <<"X-API-Key", "">>,
       <<"api-key", "">>, <<"Authorization", "Token">> >>

\* C1: callMachShip sends the schemes in the order Bearer-Authorization,
\* X-API-Key, api-key, Authorization-Token; the first answer in that order
\* that is accepted is the response it returns, whatever the earlier schemes
\* produced, and no scheme is sent after an accepted answer.
C1_FirstAcceptedWins ==
    \A p \in Slots :
        LET st == proc[p]
        IN  /\ Len(st.sent) <= Len(ClaimedOrder)
            /\ \A k \in 1..Len(st.sent) :
                   <<st.sent[k].header, st.sent[k].scheme>> = ClaimedOrder[k]
            /\ Len(st.answers) <= Len(st.sent)
            /\ \A k \in 1..Len(st.answers) :
                   Acceptable(st.answers[k]) =>
                       /\ Returned(st)
                       /\ st.returned = st.answers[k]
                       /\ Len(st.sent) = k
                       /\ \A j \in 1..(k - 1) : ~Acceptable(st.answers[j])
            /\ Returned(st) =>
                   /\ st.answers # <<>>
                   /\ st.returned = st.answers[Len(st.answers)]
                   /\ Acceptable(st.returned)

\* Schemes 1-3 were answered 401 and scheme 4 an accepted 200, which the
\* call returned.
C1_Witness ==
    \E p \in Slots :
        LET st == proc[p]
        IN  /\ Len(st.answers) = 4
            /\ \A k \in 1..3 : st.answers[k].status = 401
            /\ st.answers[4].status = 200
            /\ Returned(st)
            /\ st.returned = st.answers[4]

\* The responses (not the transport failures) among the answers, in order.
Responses(answers) == SelectSeq(answers, LAMBDA o : ~o.net)

\* C3: when no scheme is accepted the error callMachShip throws carries the
\* status and body of the last response observed in the loop, and it is a
\* transport-level error only when every attempt failed without a response.
C3_LastResponseThrown ==
    \A p \in Slots :
        LET st == proc[p]
            rs == Responses(st.answers)
        IN  Threw(st) =>
                IF rs # <<>>
                THEN /\ st.thrown.hasResponse
                     /\ st.thrown.status = rs[Len(rs)].status
                     /\ st.thrown.data = rs[Len(rs)].data
                ELSE st.thrown.kind = "transport"

\* C4 as claimed: an answer with a status below 500 is taken exactly when
\* its status is 200 and its body does not hold "Session ID".
C4_AsClaimed ==
    \A p \in Slots :
        LET st == proc[p]
        IN  \A k \in 1..Len(st.answers) :
                LET out == st.answers[k]
                IN  (~out.net /\ out.status < 500 /\ (k < Len(st.answers) \/ st.pc = "done")) =>
                        (Took(st, k) <=> (out.status = 200 /\ ~BodyHoldsMarker(out)))

\* C4 as amended: an answer with a status below 500 is taken exactly when
\* its status is 200, its parsed body is not empty, and the string
\* conversion of the parsed body (the text of a text body, "[object Object]"
\* of a JSON object) does not hold "Session ID".
C4_SuccessCheck ==
    \A p \in Slots :
        LET st == proc[p]
        IN  \A k \in 1..Len(st.answers) :
                LET out == st.answers[k]
                IN  (~out.net /\ out.status < 500 /\ (k < Len(st.answers) \/ st.pc = "done")) =>
                        (Took(st, k) <=>
                            /\ out.status = 200
                            /\ out.data # EmptyBody
                            /\ ~(out.data.kind = "text" /\ BodyHoldsMarker(out)))

\* A call that passed over a 200 with an empty body, passed over a 200 whose
\* text holds the marker, and took a 200 JSON object that holds the marker.
C4_Witness ==
    \E p \in Slots :
        LET st == proc[p]
        IN  /\ Len(st.answers) = 3
            /\ st.answers[1] = Response(200, EmptyBody, <<>>)
            /\ st.answers[2] = Response(200, SessionPage, <<>>)
            /\ st.answers[3] = Response(200, JsonWithMarker, <<>>)
            /\ Took(st, 3)

\* C5: one createConsignment call commits at most one consignment: no
\* scheme is sent after the carrier answered an earlier scheme of the call
\* with a 2xx status.
C5_NoSendAfter2xx ==
    \A p \in Slots :
        LET st == proc[p]
        IN  st.request.endpoint = ConsignEndpoint =>
                /\ st.committed <= 1
                /\ \A k \in 1..Len(st.answers) :
                       Is2xx(st.answers[k]) => Len(st.sent) = k

-----------------------------------------------------------------------------
(* SpecSession: two request slots of part_000 running the auth test (a     *)
(* login, then a gateway call) and quotes concurrently, while time passes. *)

LoginOutcomes ==
    {NetError, Response(401, Unauthorized, <<CookieB>>)}
    \cup {Response(200, JsonObject, ck) :
             ck \in {<<>>, <<CookieA>>, <<CookieA, CookieB>>, <<CookieBare>>}}

SessionCallOutcomes ==
    {Response(401, Unauthorized, <<CookieB>>), Response(200, TwoRoutes, <<CookieA, CookieB>>)}

SessionSlots == {1, 2}

InitSession == InitWith({"part_000"}, SessionSlots, {PlainToken})

NextSession ==
    \/ \E p \in SessionSlots : \E op \in {"authtest", "quote"} : Receive(p, op, SampleBody)
    \/ \E p \in SessionSlots : \E out \in LoginOutcomes : LoginAnswer(p, out)
    \/ \E p \in SessionSlots : \E out \in SessionCallOutcomes : CarrierAnswer(p, out)
    \/ \E p \in SessionSlots : Finish(p)
    \/ Tick

SpecSession == InitSession /\ [][NextSession]_vars

-----------------------------------------------------------------------------
(* Properties of the session (checked under SpecSession).                  *)

ThirtyMinutes == 30 * 60 * 1000

\* The name=value segment of a Set-Cookie line: what precedes its first ";".
RECURSIVE NameValue(_)
NameValue(line) ==
    IF line = <<>> \/ Head(line) = ";" THEN <<>>
    ELSE <<Head(line)>> \o NameValue(Tail(line))

\* The segments of the lines, "; " between each two.
RECURSIVE SegmentsJoined(_)
SegmentsJoined(lines) ==
    IF lines = <<>> THEN <<>>
    ELSE IF Len(lines) = 1 THEN NameValue(lines[1])
    ELSE SegmentsJoined(SubSeq(lines, 1, Len(lines) - 1))
             \o <<";", " ">> \o NameValue(lines[Len(lines)])

\* This step hands slot p the outcome of a strategy of its gateway call.
GatewayAnswered(p) == Len(proc'[p].answers) = Len(proc[p].answers) + 1
LastAnswer(st) == st.answers[Len(st.answers)]

\* This step hands slot p the outcome of its login request.
LoginAnswered(p) == proc[p].pc = "await_login" /\ proc'[p].pc # "await_login"

SessionValid == IsSessionValid(sessionCookie, sessionExpiry, now)

\* A login has written the session slot.
SessionExists == lastStore # NoStore

\* C6: the session is invalid from process start until the first store,
\* valid right after every store, invalid at every time at or after its
\* expiry; isSessionValid is true exactly when a session exists and
\* now < expiresAt.
C6_ValidUntilExpiry ==
    /\ ~SessionExists => ~SessionValid
    /\ (SessionExists /\ lastStore.at = now) => SessionValid
    /\ (SessionExists /\ now >= lastStore.at + ThirtyMinutes) => ~SessionValid
    /\ SessionValid <=> (SessionExists /\ now < lastStore.at + ThirtyMinutes)

\* The part of C6 that holds: the same, for a session whose stored cookie
\* string is not empty; a stored empty cookie string is never valid.
C6_ValidUnlessEmpty ==
    /\ SessionValid <=>
           /\ SessionExists
           /\ sessionCookie # JSStr(<<>>)
           /\ now < lastStore.at + ThirtyMinutes
    /\ ~SessionExists => (sessionCookie = JSNull /\ sessionExpiry = JSNull)

\* No login request is in flight.
LoginsCompleted == \A p \in Slots : proc[p].pc # "await_login"

\* The slot holds the pair a login writes from the Set-Cookie lines
\* `cookies` at time `at`.
SlotHolds(cookies, at) ==
    /\ sessionCookie = JSStr(SegmentsJoined(cookies))
    /\ sessionExpiry = JSNum(at + ThirtyMinutes)

\* C7 as claimed: the slot always holds a (cookie, expiry) pair written by
\* one login, never exactly one of the two fields, and once all logins have
\* completed it holds the pair of the login whose response was processed
\* last.
C7_AsClaimed ==
    /\ (sessionCookie = JSNull) <=> (sessionExpiry = JSNull)
    /\ SessionExists => SlotHolds(lastStore.cookies, lastStore.at)
    /\ (LoginsCompleted /\ SessionExists) =>
           /\ lastLogin.wrote
           /\ lastStore.by = lastLogin.by
           /\ SlotHolds(lastLogin.out.setCookie, lastStore.at)

\* C7 as amended: the slot always holds a (cookie, expiry) pair written by
\* one login, never exactly one of the two fields; at every moment, and so
\* once all logins have completed, it holds the pair of the last login
\* whose response carried a cookie (a login that obtained no cookie writes
\* nothing), and it is empty while no login has obtained one.
C7_LastWriteWins ==
    /\ (sessionCookie = JSNull) <=> (sessionExpiry = JSNull)
    /\ SessionExists => SlotHolds(lastStore.cookies, lastStore.at)
    /\ ~SessionExists => (sessionCookie = JSNull /\ sessionExpiry = JSNull)
    /\ lastLogin.wrote =>
           /\ lastStore.by = lastLogin.by
           /\ SlotHolds(lastLogin.out.setCookie, lastStore.at)
    /\ (lastLogin # NoLogin /\ ~lastLogin.wrote) =>
           (lastLogin.out.net \/ lastLogin.out.setCookie = <<>>)

\* Two logins were in flight together; the one answered first wrote one
\* pair, the one answered last wrote another at a later time, and the slot
\* holds the later pair.
C7_Witness ==
    /\ LoginsCompleted
    /\ lastLogin.wrote
    /\ lastStore.by = 1
    /\ lastStore.at = TickMs
    /\ lastStore.cookies = <<CookieA>>
    /\ proc[2].op = "authtest" /\ proc[2].pc = "await_call"
    /\ proc[1].op = "authtest" /\ proc[1].pc = "await_call"
    /\ SlotHolds(<<CookieA>>, TickMs)

-----------------------------------------------------------------------------
(* SpecHandlers: one quote or consignment request at a time, in each of    *)
(* the three revisions, over request bodies with parts missing and over    *)
(* every list of up to MaxRoutes routes with costs 1..MaxCost.             *)

MaxRoutes == 3
MaxCost == 2

\* The lists of routes; a route's id is its place in the list.
RouteLists ==
    UNION {{[k \in 1..n |-> Route(k, f[k])] : f \in [1..n -> 1..MaxCost]} : n \in 0..MaxRoutes}

AddressFields == {"street", "suburb", "state", "postcode"}

Without(dest, f) ==
    CASE f = "street"   -> [dest EXCEPT !.street = JSUndefined]
      [] f = "suburb"   -> [dest EXCEPT !.suburb = JSUndefined]
      [] f = "state"    -> [dest EXCEPT !.state = JSUndefined]
      [] f = "postcode" -> [dest EXCEPT !.postcode = JSUndefined]

Destinations == {NoAddress, FullAddress} \cup {Without(FullAddress, f) : f \in AddressFields}

HandlerBodies ==
    {Body(d, it, JSBool(FALSE), ord) :
        d \in Destinations,
        it \in {NoItems, Items(<<>>), Items(<<Battery>>)},
        ord \in {JSUndefined, Text("SO-00123")}}

HandlerOutcomes ==
    {NetError, Response(401, Unauthorized, <<>>), Response(204, EmptyBody, <<>>),
     Response(200, JsonObject, <<>>)}
    \cup {Response(200, RoutesData(rs), <<>>) : rs \in RouteLists}

InitHandlers == InitWith({"server", "part_000", "part_001"}, {1}, {PlainToken})

NextHandlers ==
    \/ \E op \in {"quote", "consignment"} : \E body \in HandlerBodies : Receive(1, op, body)
    \/ \E out \in HandlerOutcomes : CarrierAnswer(1, out)
    \/ Finish(1)

SpecHandlers == InitHandlers /\ [][NextHandlers]_vars

-----------------------------------------------------------------------------
(* Properties of the handlers (checked under SpecHandlers).                *)

\* The carrier call of a quote request returned a response with route list rs.
QuoteGot(st, rs) ==
    /\ st.op = "quote"
    /\ Returned(st)
    /\ st.returned.data.hasRoutes
    /\ st.returned.data.routes = rs

\* Place k holds the first route of rs whose cost is the least of the list.
FirstCheapest(rs, k) ==
    /\ k \in 1..Len(rs)
    /\ \A j \in 1..Len(rs) : rs[k].totalCost <= rs[j].totalCost
    /\ \A j \in 1..(k - 1) : rs[j].totalCost > rs[k].totalCost

\* C8: for every non-empty list of routes the carrier returns, the quote
\* handler answers with the first route in list order whose totalCost is the
\* least of the list (part_001 answers with its cost, not its id).
C8_CheapestFirst ==
    \A p \in Slots :
        LET st == proc[p]
            rs == st.returned.data.routes
        IN  (QuoteGot(st, rs) /\ rs # <<>>) =>
                /\ st.result.success
                /\ \E k \in 1..Len(rs) :
                       /\ FirstCheapest(rs, k)
                       /\ st.result.cost = rs[k].totalCost
                       /\ rev # "part_001" => st.result.routeId = rs[k].routeId

\* A quote over a list whose least cost occurs twice, after a dearer route:
\* the handler answered with the earlier of the two.
C8_Witness ==
    \E p \in Slots :
        /\ rev = "part_000"
        /\ QuoteGot(proc[p], <<Route(1, 2), Route(2, 1), Route(3, 1)>>)
        /\ proc[p].result.routeId = 2
        /\ proc[p].result.cost = 1

\* C9: when the accepted response holds zero usable routes (an empty routes
\* list or no routes field) the quote fails as a not-found condition (404),
\* never as a success and never as a server error.
C9_NoRoutesIsNotFound ==
    \A p \in Slots :
        LET st == proc[p]
        IN  (st.op = "quote" /\ Returned(st)
             /\ (~st.returned.data.hasRoutes \/ st.returned.data.routes = <<>>)) =>
                /\ ~st.result.success
                /\ st.result.status = 404

\* The destination of the request body lacks one of the four fields.
LacksField(dest) ==
    \/ ~Truthy(dest.street) \/ ~Truthy(dest.suburb)
    \/ ~Truthy(dest.state)  \/ ~Truthy(dest.postcode)

\* C10: a quote or consignment request whose destination address lacks
\* street, suburb, state or postcode fails validation, and no request is
\* sent to the carrier for it.
C10_AddressValidated ==
    \A p \in Slots :
        LET st == proc[p]
        IN  (st.op \in {"quote", "consignment"}
             /\ st.body.destination_address.present
             /\ LacksField(st.body.destination_address)) =>
                /\ st.sent = <<>>
                /\ st.pc = "done"
                /\ st.result.status = 400

\* The parts the claim names are absent from the body of the request.
QuoteLacksInput(body) ==
    \/ ~body.destination_address.present
    \/ ~body.items.present
    \/ body.items.list = <<>>
ConsignLacksInput(body) ==
    \/ body.order_number = JSUndefined
    \/ ~body.destination_address.present
    \/ ~body.items.present

\* The handler answered 400 without sending anything to the carrier.
Rejected(st) == st.pc = "done" /\ st.result.status = 400 /\ st.sent = <<>>

\* C11: a consignment request without order number, destination address or
\* items, and a quote request without destination, without item list or
\* with an empty item list, is answered 400 and nothing is sent to the
\* carrier for it.
C11_ValidationRejects ==
    \A p \in Slots :
        LET st == proc[p]
        IN  /\ (st.op = "quote" /\ QuoteLacksInput(st.body)) => Rejected(st)
            /\ (st.op = "consignment" /\ ConsignLacksInput(st.body)) => Rejected(st)

\* The part of C11 that holds: the same in server.js and part_000, and in
\* part_001 for a quote request without destination or without item list.
C11_ExceptEmptyList001 ==
    \A p \in Slots :
        LET st == proc[p]
        IN  /\ (st.op = "quote" /\ QuoteLacksInput(st.body)
                 /\ ~(rev = "part_001" /\ st.body.destination_address.present
                                       /\ st.body.items.present)) => Rejected(st)
            /\ (st.op = "consignment" /\ ConsignLacksInput(st.body)) => Rejected(st)

-----------------------------------------------------------------------------
(* SpecRequests: one quote, consignment or webhook request at a time, in   *)
(* each of the three revisions, over every value of forklift_available,    *)
(* items with absent, zero and negative fields, and order events with up   *)
(* to MaxFields custom fields.                                             *)

MaxFields == 2

ForkliftValues == {JSUndefined, JSBool(TRUE), JSBool(FALSE), Text("no"), Text("yes")}

\* Items with every field absent, zero, and negative.
BareItem ==
    Item(JSUndefined, JSUndefined, JSUndefined, JSUndefined, JSUndefined,
         JSUndefined, JSUndefined, JSUndefined)
ZeroItem ==
    Item(JSNum(0), JSNum(0), JSNum(0), JSNum(0), JSNum(0),
         Text("Battery 12V"), JSUndefined, JSUndefined)
NegativeItem ==
    Item(JSNum(-1), JSNum(-10), JSNum(50), JSNum(30), JSNum(-25),
         Text("Battery 12V"), JSUndefined, JSUndefined)

RequestBodies ==
    {Body(FullAddress, Items(<<it>>), f, Text("SO-00123")) :
        it \in {Battery, BareItem, ZeroItem, NegativeItem}, f \in ForkliftValues}

\* Custom fields: the forklift field with "yes" and with "no", and another
\* field with "yes".
SomeFields ==
    {Field(ForkliftFieldId, Text("yes")), Field(ForkliftFieldId, Text("no")),
     Field(Text("171656000000000001"), Text("yes"))}

FieldLists ==
    UNION {{[k \in 1..n |-> f[k]] : f \in [1..n -> SomeFields]} : n \in 0..MaxFields}

\* A line item of an order: quantity, name and sku, no package_details.
LineItem(q) ==
    Item(q, JSUndefined, JSUndefined, JSUndefined, JSUndefined, JSUndefined,
         Text("Battery 12V"), Text("SKU-1"))

OrderEvents ==
    {OrderEvent(cf, li, so, FullAddress, Text("John Doe")) :
        cf \in {NoCustomFields} \cup {CustomFields(l) : l \in FieldLists},
        li \in {NoItems, Items(<<LineItem(JSNum(2))>>), Items(<<LineItem(JSUndefined)>>)},
        so \in {JSUndefined, Text("SO-00123")}}

RequestOutcomes ==
    {NetError, Response(401, Unauthorized, <<>>), Response(500, ServerError, <<>>),
     Response(200, JsonObject, <<>>), Response(200, TwoRoutes, <<>>)}

InitRequests == InitWith({"server", "part_000", "part_001"}, {1}, {PlainToken})

NextRequests ==
    \/ \E op \in {"quote", "consignment"} : \E body \in RequestBodies : Receive(1, op, body)
    \/ \E ev \in OrderEvents : \E reach \in BOOLEAN : ReceiveWebhook(1, ev, reach)
    \/ \E out \in RequestOutcomes : CarrierAnswer(1, out)
    \/ Finish(1)

SpecRequests == InitRequests /\ [][NextRequests]_vars

-----------------------------------------------------------------------------
(* Properties of the requests built (checked under SpecRequests).          *)

\* C12: an order event without line items makes the webhook fail with a
\* client-error status (4xx), and no consignment request is sent for it.
C12_MissingLinesRejected ==
    \A p \in Slots :
        LET st == proc[p]
        IN  (st.op = "webhook" /\ ~st.event.line_items.present) =>
                /\ st.pc = "done"
                /\ st.result.status >= 400 /\ st.result.status < 500
                /\ st.sent = <<>>

\* The custom fields of the event, as a list (empty when the event has none).
FieldsOf(ev) == IF ev.custom_fields.present THEN ev.custom_fields.list ELSE <<>>

\* Field k carries the pre-agreed identifier / carries it with value "yes".
IsForkliftField(fs, k) == fs[k].customfield_id = Text("171656000002394353")
SaysYes(fs, k) == IsForkliftField(fs, k) /\ fs[k].value = Text("yes")

\* The webhook's consignment request has gone to the carrier.
WebhookSent(st) == st.op = "webhook" /\ st.sent # <<>>

\* C13 as claimed: forkliftAvailable is true exactly when the custom-field
\* list contains the pre-agreed identifier with value "yes"; the consignment
\* request sent has tailLiftRequired = TRUE when it is false and FALSE when
\* it is true.
C13_AsClaimed ==
    \A p \in Slots :
        LET st == proc[p]
            fs == FieldsOf(st.event)
        IN  /\ st.op = "webhook" =>
                   (st.forkliftAvailable <=> \E k \in 1..Len(fs) : SaysYes(fs, k))
            /\ WebhookSent(st) =>
                   (st.request.tailLiftRequired <=> ~st.forkliftAvailable)

\* C13 as amended: forkliftAvailable is true exactly when the first field
\* of the custom-field list that carries the pre-agreed identifier has the
\* value "yes", and false otherwise (no custom fields, no field with the
\* identifier, or another value in the first such field); the consignment
\* request sent has tailLiftRequired = TRUE when it is false and FALSE when
\* it is true.
C13_FirstFieldDecides ==
    \A p \in Slots :
        LET st == proc[p]
            fs == FieldsOf(st.event)
        IN  /\ st.op = "webhook" =>
                   (st.forkliftAvailable <=>
                       \E k \in 1..Len(fs) :
                           /\ SaysYes(fs, k)
                           /\ \A j \in 1..(k - 1) : ~IsForkliftField(fs, j))
            /\ WebhookSent(st) =>
                   (st.request.tailLiftRequired <=> ~st.forkliftAvailable)

\* An order whose custom fields carry the identifier twice, with "no" and
\* then with "yes": forkliftAvailable is false and the consignment request
\* sent through server.js asks for a tail lift.
C13_Witness ==
    \E p \in Slots :
        /\ rev = "server"
        /\ WebhookSent(proc[p])
        /\ FieldsOf(proc[p].event) =
               <<Field(ForkliftFieldId, Text("no")), Field(ForkliftFieldId, Text("yes"))>>
        /\ ~proc[p].forkliftAvailable
        /\ proc[p].request.tailLiftRequired

\* The caller's forklift_available, as a condition.
ForkliftGiven(st) == Truthy(st.body.forklift_available)

\* C14: for every value of the caller's forklift_available (true, false,
\* absent, a string) the quote and consignment requests sent to the carrier
\* have tailLiftRequired = NOT forkliftAvailable; an absent value gives
\* tailLiftRequired = TRUE.
C14_TailLiftIsNotForklift ==
    \A p \in Slots :
        LET st == proc[p]
        IN  (st.op \in {"quote", "consignment"} /\ st.sent # <<>>) =>
                /\ st.request.tailLiftRequired <=> ~ForkliftGiven(st)
                /\ st.body.forklift_available = JSUndefined => st.request.tailLiftRequired

\* The part of C14 that holds: for the boolean values the request has
\* tailLiftRequired = NOT forkliftAvailable.
C14_ForBooleans ==
    \A p \in Slots :
        LET st == proc[p]
        IN  (st.op \in {"quote", "consignment"} /\ st.sent # <<>>
             /\ st.body.forklift_available.t = "boolean") =>
                (st.request.tailLiftRequired <=> ~ForkliftGiven(st))

\* The operation failed because the carrier answered with an error status:
\* every request of the call was answered, the last one with a status of
\* 400 or more, and the call threw.
FailedOnStatus(st) ==
    /\ Threw(st)
    /\ st.answers # <<>>
    /\ \A k \in 1..Len(st.answers) : ~st.answers[k].net
    /\ LastAnswer(st).status >= 400

\* The answer to the caller carries the status and body of the carrier's
\* last response.
PassedOn(st) ==
    /\ st.result.status = LastAnswer(st).status
    /\ st.result.details = LastAnswer(st).data

\* C15: whenever a quote, consignment or webhook operation fails because
\* the carrier answered with an error status, the answer to the caller
\* carries the carrier's status and body.
C15_UpstreamErrorPassedOn ==
    \A p \in Slots :
        LET st == proc[p]
        IN  (st.op \in {"quote", "consignment", "webhook"} /\ FailedOnStatus(st)) =>
                PassedOn(st)

\* The part of C15 that holds: the quote and consignment handlers pass the
\* status and body on when the call was a single request (server.js,
\* part_001) and, in part_000, when the last strategy was answered with a
\* status of 500 or more.
C15_DirectHandlers ==
    \A p \in Slots :
        LET st == proc[p]
        IN  (st.op \in {"quote", "consignment"} /\ FailedOnStatus(st)
             /\ (rev = "part_000" => LastAnswer(st).status >= 500)) =>
                PassedOn(st)

-----------------------------------------------------------------------------
(* Further properties of the handlers and of the gateway call (checked     *)
(* under SpecHandlers).                                                    *)

\* No attempt of the call obtained a response.
AllFailedAtTransport(st) ==
    /\ st.answers # <<>>
    /\ \A k \in 1..Len(st.answers) : st.answers[k].net

\* C16: when a quote or consignment operation fails because no attempt
\* obtained a response from the carrier, the caller receives status 500
\* with the error message only and no upstream body.
C16_TransportIs500 ==
    \A p \in Slots :
        LET st == proc[p]
        IN  (st.op \in {"quote", "consignment"} /\ st.pc = "done"
             /\ AllFailedAtTransport(st)) =>
                /\ ~st.result.success
                /\ st.result.status = 500
                /\ st.result.details = NoData

\* A consignment request of part_000 whose four strategies all failed at
\* transport level: it was answered 500.
C16_Witness ==
    \E p \in Slots :
        LET st == proc[p]
        IN  /\ rev = "part_000"
            /\ st.op = "consignment"
            /\ Len(st.answers) = 4
            /\ AllFailedAtTransport(st)
            /\ st.pc = "done"
            /\ st.result.status = 500

\* C17: one gateway call sends each auth scheme at most once, so at most
\* four requests; the number of requests sent is never more than one ahead
\* of the answers, and once every request sent has been answered or has
\* failed the call has ended, with the response it returns or with the
\* error it throws.
C17_OnePassThenEnds ==
    \A p \in Slots :
        LET st == proc[p]
        IN  /\ Len(st.sent) <= 4
            /\ \A j, k \in 1..Len(st.sent) : st.sent[j] = st.sent[k] => j = k
            /\ Len(st.answers) <= Len(st.sent)
            /\ Len(st.sent) <= Len(st.answers) + 1
            /\ (st.sent # <<>> /\ Len(st.answers) = Len(st.sent)) =>
                   /\ st.pc = "done"
                   /\ (st.returned # NetError) # (st.thrown # NoError)

\* A call of part_000 that sent its four schemes, whose last request
\* failed, and that ended by throwing.
C17_Witness ==
    \E p \in Slots :
        LET st == proc[p]
        IN  /\ rev = "part_000"
            /\ Len(st.sent) = 4
            /\ Len(st.answers) = 4
            /\ st.answers[4].net
            /\ Threw(st)

-----------------------------------------------------------------------------
(* SpecTokens: quote and consignment requests in each of the three         *)
(* revisions, the process having been started with each token of Tokens.   *)

Tokens ==
    { PlainToken,
      <<"Bearer", " ", "abc123">>,
      <<"bearer", " ", "abc123">>,
      <<"BEARER", "  ", "abc123">>,
      <<" ", "Bearer", " ", "abc123", " ">>,
      <<"Bearer", " ", "Bearer", " ", "abc123">>,
      <<"Bearer", " ", "bearer", " ", "abc123">> }

TokenOutcomes ==
    {NetError, Response(401, Unauthorized, <<>>), Response(200, TwoRoutes, <<>>)}

InitTokens == InitWith({"server", "part_000", "part_001"}, {1}, Tokens)

NextTokens ==
    \/ \E op \in {"quote", "consignment"} : Receive(1, op, SampleBody)
    \/ \E out \in TokenOutcomes : CarrierAnswer(1, out)
    \/ Finish(1)

SpecTokens == InitTokens /\ [][NextTokens]_vars

\* The header value begins with "Bearer Bearer".
DoubledBearer(v) ==
    Len(v) >= 3 /\ v[1] = "Bearer" /\ v[2] \in {" ", "  "} /\ v[3] = "Bearer"

\* The number of "Bearer " prefixes, in any letter case, the configured
\* token starts with.
RECURSIVE BearerPrefixes(_)
BearerPrefixes(w) ==
    IF Len(w) >= 2 /\ w[1] \in {"Bearer", "bearer", "BEARER"} /\ w[2] \in {" ", "  "}
    THEN 1 + BearerPrefixes(SubSeq(w, 3, Len(w)))
    ELSE 0

\* C18: whatever the configured token, with or without "Bearer " prefixes
\* in any letter case, no auth header value sent to the carrier begins with
\* a doubled "Bearer Bearer".
C18_NoDoubledBearer ==
    \A p \in Slots :
        \A k \in 1..Len(proc[p].headers) : ~DoubledBearer(proc[p].headers[k])

\* The part of C18 that holds: in part_000, and for a token that starts
\* with at most one "Bearer " prefix, no header value sent begins with a
\* doubled "Bearer Bearer".
C18_OnePrefix000 ==
    \A p \in Slots :
        (rev = "part_000" /\ BearerPrefixes(MACHSHIP_API_TOKEN) <= 1) =>
            \A k \in 1..Len(proc[p].headers) : ~DoubledBearer(proc[p].headers[k])

-----------------------------------------------------------------------------
(* Properties of the items and flags of the requests sent.                 *)

\* The five numeric fields of an item of a carrier request.
Dimensions(it) == <<it.quantity, it.length, it.width, it.height, it.weight>>

\* The defaults of the five fields, in the same order.
DimensionDefaults == <<JSNum(1), JSNum(100), JSNum(50), JSNum(30), JSNum(25)>>

IsPositive(v) == v.t = "number" /\ v.n > 0

\* C19 (checked under SpecRequests): every item of a request sent to the
\* carrier has quantity, length, width, height and weight set to positive
\* numbers, whatever the input items hold (absent, zero or negative
\* fields).
C19_ItemsPositive ==
    \A p \in Slots :
        LET st == proc[p]
        IN  st.sent # <<>> =>
                \A k \in 1..Len(st.request.items) : \A f \in 1..5 :
                    IsPositive(Dimensions(st.request.items[k])[f])

\* The part of C19 that holds: in the quote and consignment requests a
\* field that is absent or zero in the input item takes its default
\* (1, 100, 50, 30, 25), and any other value is sent as it is.
C19_DefaultsForFalsy ==
    \A p \in Slots :
        LET st == proc[p]
        IN  (st.op \in {"quote", "consignment"} /\ st.sent # <<>>) =>
                /\ Len(st.request.items) = Len(st.body.items.list)
                /\ \A k \in 1..Len(st.request.items) : \A f \in 1..5 :
                       LET given == Dimensions(st.body.items.list[k])[f]
                           sends == Dimensions(st.request.items[k])[f]
                       IN  IF given = JSUndefined \/ given = JSNum(0)
                           THEN sends = DimensionDefaults[f]
                           ELSE sends = given

\* C20 (checked under SpecSession): every request sent to the quote or the
\* consignment endpoint of the carrier, from any endpoint of the server,
\* has dangerousGoods = TRUE.
C20_DangerousGoodsAlways ==
    \A p \in Slots :
        LET st == proc[p]
        IN  (st.sent # <<>> /\ st.request.endpoint \in {QuoteEndpoint, ConsignEndpoint}) =>
                st.request.dangerousGoods

\* The part of C20 that holds: the requests of the quote, consignment and
\* webhook handlers have dangerousGoods = TRUE.
C20_ExceptAuthTest ==
    \A p \in Slots :
        LET st == proc[p]
        IN  (st.sent # <<>> /\ st.op \in {"quote", "consignment", "webhook"}) =>
                st.request.dangerousGoods

-----------------------------------------------------------------------------
(* Properties of the webhook's answer (checked under SpecRequests).        *)

\* The consignment creation of the slot's call succeeded at the carrier:
\* the call returned the carrier's answer to the last request, a 2xx.
CreatedAtCarrier(st) ==
    /\ st.request.endpoint = ConsignEndpoint
    /\ st.answers # <<>>
    /\ Is2xx(LastAnswer(st))
    /\ st.returned = LastAnswer(st)

\* C21: the webhook answers an order event with success only after the
\* consignment creation it invoked for the event has succeeded at the
\* carrier; while the creation has not succeeded it has not answered with
\* success, and when the creation failed (the call threw, or its own
\* endpoint was not reached) or validation failed (nothing was sent) it
\* answers with an error status.
C21_SuccessAfterCreation ==
    \A p \in Slots :
        LET st == proc[p]
        IN  st.op = "webhook" =>
                /\ st.result.success => (st.pc = "done" /\ CreatedAtCarrier(st))
                /\ (st.pc = "done" /\ ~CreatedAtCarrier(st)) =>
                       /\ ~st.result.success
                       /\ st.result.status >= 400

\* A webhook of server.js that answered with success after the carrier had
\* answered its consignment request with 200.
C21_Witness ==
    \E p \in Slots :
        LET st == proc[p]
        IN  /\ st.op = "webhook"
            /\ rev = "server"
            /\ st.pc = "done"
            /\ st.result.success
            /\ st.answers = <<Response(200, JsonObject, <<>>)>>

-----------------------------------------------------------------------------
(* Further properties of the session (checked under SpecSession).          *)

\* This step writes the session slot.
SessionWritten == sessionCookie' # sessionCookie \/ sessionExpiry' # sessionExpiry

\* C22: the session slot is written only by loginToMachShip, and a login
\* that the carrier answers with an error status (4xx or 5xx) does not
\* create or replace the session.
C22_OnlySuccessfulLoginStores ==
    [][/\ SessionWritten => \E p \in Slots : LoginAnswered(p)
       /\ \A p \in Slots :
              (LoginAnswered(p) /\ ~lastLogin'.out.net /\ lastLogin'.out.status >= 400) =>
                  /\ UNCHANGED <<sessionCookie, sessionExpiry>>
                  /\ ~lastLogin'.wrote]_vars

\* The part of C22 that holds: the session slot is written only in a step
\* of loginToMachShip, by a login whose response carried a cookie.
C22_OnlyLoginWrites ==
    [][SessionWritten =>
          \E p \in Slots :
              /\ LoginAnswered(p)
              /\ ~lastLogin'.out.net
              /\ lastLogin'.out.setCookie # <<>>]_vars

-----------------------------------------------------------------------------
(* SpecIndependence: two request slots of part_000 running quotes,         *)
(* consignments and auth tests (logins) concurrently, while time passes.   *)

IndependentLogins ==
    {NetError, Response(200, JsonObject, <<>>), Response(200, JsonObject, <<CookieA>>)}

NextIndependence ==
    \/ \E p \in SessionSlots : \E op \in {"authtest", "quote", "consignment"} :
           Receive(p, op, SampleBody)
    \/ \E p \in SessionSlots : \E out \in IndependentLogins : LoginAnswer(p, out)
    \/ \E p \in SessionSlots : \E out \in SessionCallOutcomes : CarrierAnswer(p, out)
    \/ \E p \in SessionSlots : Finish(p)
    \/ Tick

SpecIndependence == InitSession /\ [][NextIndependence]_vars

\* What a request's outcome may depend on: its operation and body, and the
\* carrier's answers to it so far (the configuration is the same for all
\* requests of a run).
OwnInput(st) == <<st.op, st.body, st.answers>>

\* The outcome of a request: where its handler stands, the carrier request
\* it built, the strategies and header values it sent, what the carrier
\* call returned or threw, and the answer given to the caller.
Outcome(st) ==
    <<st.pc, st.request, st.sent, st.headers, st.returned, st.thrown, st.result>>

\* C23: the outcome of a quote or consignment request depends only on its
\* own input, the configuration and the carrier's answers to it.  Two
\* requests handled in the two slots, at different times and so before and
\* after logins, with or without a stored or a valid session, and under
\* any interleaving of their steps with each other's and with logins, have
\* the same outcome whenever they have the same input and have received
\* the same answers.
C23_SameInputSameOutcome ==
    \A p, q \in Slots :
        (/\ proc[p].op \in {"quote", "consignment"}
         /\ proc[p].pc # "idle"
         /\ proc[q].pc # "idle"
         /\ OwnInput(proc[p]) = OwnInput(proc[q])) =>
            Outcome(proc[p]) = Outcome(proc[q])

\* Two consignment requests which both received a 401 and then a 200 and
\* were answered alike, while a login of slot 2, made before its request
\* and one tick after the start, has stored a session that is still valid.
C23_Witness ==
    /\ proc[1].op = "consignment" /\ proc[1].pc = "done"
    /\ proc[2].op = "consignment" /\ proc[2].pc = "done"
    /\ Len(proc[1].answers) = 2
    /\ proc[1].answers[1].status = 401
    /\ proc[1].answers[2].status = 200
    /\ proc[2].answers = proc[1].answers
    /\ proc[1].result.success /\ proc[2].result = proc[1].result
    /\ lastStore.by = 2 /\ lastStore.at = TickMs
    /\ SessionValid

-----------------------------------------------------------------------------
(* The frame of a login without a cookie (checked under SpecSession).      *)

\* The login answered in this step obtained no cookie: its request failed
\* at transport level or its response has no Set-Cookie header.
NoCookieObtained == lastLogin'.out.net \/ lastLogin'.out.setCookie = <<>>

\* C24: a login attempt that obtains no cookie returns false (the auth
\* test answers that no session cookie was received and sends nothing to
\* the carrier) and leaves the session cookie and the session expiry
\* unchanged, so that a stored session is as valid after it as before.
C24_NoCookieNoChange ==
    [][\A p \in Slots :
          (LoginAnswered(p) /\ NoCookieObtained) =>
              /\ UNCHANGED <<sessionCookie, sessionExpiry>>
              /\ ~lastLogin'.wrote
              /\ proc'[p].pc = "done"
              /\ ~proc'[p].result.success
              /\ proc'[p].sent = <<>>
              /\ IsSessionValid(sessionCookie', sessionExpiry', now')
                     <=> IsSessionValid(sessionCookie, sessionExpiry, now)]_vars

\* A login of slot 1 stored a session; the login processed last, of slot
\* 2, failed at transport level, and the stored session is still there and
\* valid.
C24_Witness ==
    /\ lastStore.by = 1
    /\ lastLogin.by = 2
    /\ lastLogin.out.net
    /\ ~lastLogin.wrote
    /\ proc[2].op = "authtest" /\ proc[2].pc = "done"
    /\ sessionCookie = JSStr(<<"sid=abc">>)
    /\ SessionValid

====
